---- MODULE Spec2Model ----
(***************************************************************************)
(* Admission-and-forwarding pipeline of the banking API gateway:           *)
(* ValidateToken -> RateLimiter.checkLimit -> ProxyHandler.Handle          *)
(* (gobreaker circuit breaker) -> doProxy.                                 *)
(*                                                                         *)
(* One request task per element of Tasks.  A task is suspended only at     *)
(* its I/O points (counting-store round trips, the outbound call) and at   *)
(* the breaker's mutex; every action below is one such atomic piece.       *)
(* Times and durations are in milliseconds.                                *)
(***************************************************************************)
EXTENDS Integers, Sequences, FiniteSets, TLC

\* ---------------------------------------------------------------- bounds
\* Number of concurrently running request tasks.
NumTasks == 2
\* The clock stops advancing here.
MaxTime == 60000
\* The clock of the public route's limiter runs on to here: past the expiry of
\* a counter created before the end of the first step.
MaxWindowTime == 90000
\* The clock advances by this much per Tick.
TickStep == 10000
\* No further request arrives for a limit key whose counter is this much above
\* its quota.
MaxDenials == 2
\* No further request arrives for a breaker that has counted this many
\* requests in its current generation.
MaxGenRequests == 6
\* Longest part of a request path after its route's group.
MaxSuffixLen == 4
\* The clock may also advance by this much less than a full step.
Jitter == 300

Tasks == 1..NumTasks

\* ------------------------------------------------------- program constants
\* time.Second, in the model's time unit
Second == 1000
Minute == 60 * Second
Hour == 3600 * Second

\* NewRateLimiter: the three policies
authLimit == [Limit |-> 5, Window |-> 1 * Minute]
transferLimit == [Limit |-> 100, Window |-> 1 * Hour]
defaultLimit == [Limit |-> 1000, Window |-> 1 * Hour]

\* createCircuitBreaker: gobreaker.Settings
MaxRequests == 5
Interval == 10 * Second
\* The cool-down given the interval's value
TimeoutAsInterval == Interval
Timeout == 30 * Second

\* net/http status codes used by the handlers
StatusUnauthorized == 401
StatusTooManyRequests == 429
StatusInternalServerError == 500
StatusBadGateway == 502
StatusServiceUnavailable == 503

\* ------------------------------------------------------------ configuration
\* cfg.Services of the modelled deployment: name -> Service.  The map exercises
\* every branch of Handle: two breaker-enabled services, one without a
\* breaker, one whose URL does not parse, and "reporting-service" left
\* unconfigured.
Services ==
  [ s \in {"auth-service", "transaction-service", "user-service", "aml-service"} |->
      [ urlOk |-> s # "aml-service",
        CircuitBreaker |-> s \in {"transaction-service", "user-service"} ] ]

ServiceNames ==
  {"auth-service", "transaction-service", "user-service", "reporting-service", "aml-service"}

\* NewProxyHandler: the services that get a breaker
BreakerNames == { s \in DOMAIN Services : Services[s].CircuitBreaker }

\* setupRoutes: route group -> registered path, middleware chain, backend.
\* "limiter" is the limiter a route gets when the rate limiter exists.
RouteTable ==
  [ auth      |-> [ path |-> <<"/api/auth/*">>,      protected |-> FALSE,
                    limiter |-> "auth",     service |-> "auth-service" ],
    transfers |-> [ path |-> <<"/api/transfers/*">>, protected |-> TRUE,
                    limiter |-> "transfer", service |-> "transaction-service" ],
    users     |-> [ path |-> <<"/api/users/*">>,     protected |-> TRUE,
                    limiter |-> "default",  service |-> "user-service" ],
    reporting |-> [ path |-> <<"/api/reporting/*">>, protected |-> TRUE,
                    limiter |-> "default",  service |-> "reporting-service" ],
    aml       |-> [ path |-> <<"/api/aml/*">>,       protected |-> TRUE,
                    limiter |-> "default",  service |-> "aml-service" ] ]

Routes == DOMAIN RouteTable

\* AuthRateLimiter / TransferRateLimiter / DefaultRateLimiter
LimiterConfig(l) ==
  CASE l = "auth" -> authLimit
    [] l = "transfer" -> transferLimit
    [] OTHER -> defaultLimit

\* RateLimitByIP for the auth limiter, RateLimitByUser for the other two
LimiterScope(l) == IF l = "auth" THEN "ip" ELSE "user"

\* ------------------------------------------------------------------ inputs
\* Caller addresses (c.RealIP()); strings are sequences of text pieces.
IPs == { <<"10.0.0.1">> }

\* X-User-ID headers a caller may send (<<>>: none)
InboundUserIDs == { <<>>, <<"admin">>, <<"u1">> }

\* Connection headers a caller may send: the header names it lists
InboundConnections == { {}, {"X-User-ID"} }

\* Caller addresses for the comparison of limit keys
KeyIPs == { <<"10.0.0.1">>, <<"10.0.0.2">> }

\* Bearer tokens a caller may present: whether jwt.Parse accepts the token and
\* the "sub" claim it carries as a string (<<>>: no such claim, or not a
\* string, or the empty string).
Tokens ==
  [ tokA       |-> [ valid |-> TRUE,  sub |-> <<"u1">> ],
    tokBad     |-> [ valid |-> FALSE, sub |-> <<"u1">> ],
    tokRevoked |-> [ valid |-> TRUE,  sub |-> <<"u1">> ],
    tokNoSub   |-> [ valid |-> TRUE,  sub |-> <<>> ],
    tokSubIP   |-> [ valid |-> TRUE,  sub |-> <<"10.0.0.1">> ] ]

\* The lifetimes a token is blacklisted for (0: for good)
BlacklistDurations == {0, 3 * TickStep}

\* Authorization header of a request: absent, not "Bearer <token>", or a token.
AuthzValues == {"none", "malformed", "tokA", "tokBad", "tokRevoked"}

\* The tokens that get revoked
RevocableTokens == {"tokRevoked"}

\* Authorization headers while tokens are being revoked: the token that gets
\* revoked, which verifies, and one that does not verify
BlacklistAuthzValues == {"tokRevoked", "tokBad"}

\* Authorization headers for the comparison of limit keys: valid tokens with
\* an ordinary subject, without subject, and with a subject that reads like a
\* network address
KeyAuthzValues == {"none", "tokA", "tokNoSub", "tokSubIP"}

\* What the outbound call can end with: a transport-level error, or a backend
\* response with some HTTP status whose body is then copied to the caller;
\* copyErr tells that the copy breaks off (the backend's stream ends early, or
\* the caller's connection is gone).
BackendOutcomes ==
  { [ err |-> TRUE, status |-> 0, copyErr |-> FALSE ] } \cup
  { [ err |-> FALSE, status |-> st, copyErr |-> FALSE ] : st \in {200, 500} } \cup
  { [ err |-> FALSE, status |-> 200, copyErr |-> TRUE ] }

\* --------------------------------------------------------------- variables
VARIABLES
  now,          \* wall clock (time.Now(), and the store's clock)
  redisClient,  \* TRUE iff NewRedisClient succeeded at startup
  redis,        \* the store: limit key -> [count, expireAt], blacklist key -> [value, expireAt]
  breakers,     \* ProxyHandler.breakers: service -> gobreaker state
  req,          \* per task: the request in flight, its context and its response
  hist,         \* observer: per limit key, the checks made in the current window
  dirty,        \* observer: keys with checks unknown to hist (made before startup, or failed)
  streak,       \* observer: per breaker, consecutive failures of the current generation
  fwd           \* the outbound request doProxy's Director is working on

vars == <<now, redisClient, redis, breakers, req, hist, dirty, streak, fwd>>


\* ------------------------------------------------------------ small helpers
\* Go's integer conversion of a quotient: truncation toward zero
TruncDiv(a, b) == IF a >= 0 THEN a \div b ELSE -((-a) \div b)

\* int(d.Seconds()) for a time.Duration d
DurationSeconds(d) == TruncDiv(d, Second)

Max(a, b) == IF a >= b THEN a ELSE b

\* fmt.Sprintf("ratelimit:ip:%s:%s", ip, path)
LimitKeyIP(ip, path) == <<"ratelimit:ip:">> \o ip \o <<":">> \o path

\* fmt.Sprintf("ratelimit:user:%s:%s", userID, path)
LimitKeyUser(userID, path) == <<"ratelimit:user:">> \o userID \o <<":">> \o path

\* ------------------------------------------------- counting store (Redis)
\* An entry is [count, expireAt]; expireAt is <<t>>, or <<>> for a key without
\* expiry.  The store drops a key once the time is past its expiry time: at
\* the expiry time itself the key still exists.
Live(store, key, t) ==
  /\ key \in DOMAIN store
  /\ (store[key].expireAt = <<>> \/ t <= store[key].expireAt[1])

\* The keys of the store that still exist at time t
ExpireKeys(store, t) ==
  [ k \in { x \in DOMAIN store : Live(store, x, t) } |-> store[k] ]

\* A counter read and written back in two round trips instead of one script:
\* the write of a call that finds the counter at an odd value is overtaken.
IncrScriptRace(store, key, seconds, t) ==
  LET current == IF Live(store, key, t) THEN store[key].count + 1 ELSE 1
      kept == IF current > 1 /\ current % 2 = 0 THEN current - 1 ELSE current
      entry == IF current = 1
               THEN [ count |-> 1, expireAt |-> <<t + seconds * Second>> ]
               ELSE [ count |-> kept, expireAt |-> store[key].expireAt ]
  IN  [ store |-> [ k \in DOMAIN ExpireKeys(store, t) \cup {key} |->
                      IF k = key THEN entry ELSE store[k] ],
        result |-> current ]

\* The Lua script of IncrementWithExpiry, run as one indivisible operation:
\* INCR, and EXPIRE only when the INCR created the key.
IncrScript(store, key, seconds, t) ==
  LET current == IF Live(store, key, t) THEN store[key].count + 1 ELSE 1
      entry == IF current = 1
               THEN [ count |-> 1, expireAt |-> <<t + seconds * Second>> ]
               ELSE [ count |-> current, expireAt |-> store[key].expireAt ]
  IN  [ store |-> [ k \in DOMAIN ExpireKeys(store, t) \cup {key} |->
                      IF k = key THEN entry ELSE store[k] ],
        result |-> current ]

\* Outcomes of one store round trip: it works, it fails before the command
\* reaches the store, the command runs and the reply is lost, or the store
\* answers with an error without running the command.
StoreFaults == {"ok", "lost_request", "lost_reply", "error_reply"}

\* A store that every command reaches and that answers each, with its result
\* or with an error: nothing for the client to send again
Answered == {"ok", "error_reply"}

\* redis.NewClient with Addr, Password and DB only: the client's MaxRetries
\* keeps its default
MaxRetries == 3

\* go-redis shouldRetry: network errors and read timeouts are retried, an
\* error reply of the store is not
ShouldRetry(fault) == fault \in {"lost_request", "lost_reply"}

\* RedisClient.IncrementWithExpiry, one send of the EVAL command: tries is
\* the number of sends of this call that failed before.  "again" tells that
\* the client will send the command once more after its backoff; err is the
\* error the call returns when it will not.
IncrementWithExpiry(store, key, window, t, fault, tries) ==
  LET s0 == DurationSeconds(window)
      seconds == IF s0 = 0 THEN 1 ELSE s0
      ran == IncrScript(store, key, seconds, t)
      again == ShouldRetry(fault) /\ tries < MaxRetries
  IN  [ store |-> IF fault \in {"ok", "lost_reply"} THEN ran.store ELSE store,
        result |-> IF fault = "ok" THEN ran.result ELSE 0,
        err |-> fault # "ok" /\ ~again,
        again |-> again ]

\* RedisClient.TTL: the store answers whole seconds (rounded), -1 for a key
\* without expiry and -2 for a missing key; the client turns the two negative
\* answers into durations of -1 and -2 units.  On error the duration is 0.
TTL(store, key, t, fault) ==
  IF fault # "ok" THEN [ ttl |-> 0, err |-> TRUE ]
  ELSE IF ~Live(store, key, t) THEN [ ttl |-> -2, err |-> FALSE ]
  ELSE IF store[key].expireAt = <<>> THEN [ ttl |-> -1, err |-> FALSE ]
  ELSE [ ttl |-> ((store[key].expireAt[1] - t + (Second \div 2)) \div Second) * Second,
         err |-> FALSE ]

\* "blacklist:" + tokenIdentifier
BlacklistKey(tokenIdentifier) == <<"blacklist:", tokenIdentifier>>

\* RedisClient.IsTokenBlacklisted: EXISTS on the token's blacklist key
IsTokenBlacklisted(store, tokenIdentifier, t, fault) ==
  IF fault # "ok" THEN [ result |-> FALSE, err |-> TRUE ]
  ELSE [ result |-> Live(store, BlacklistKey(tokenIdentifier), t), err |-> FALSE ]

\* RedisClient.BlacklistToken: SET of the token's blacklist key, with the
\* duration as its expiry when that is positive and without expiry when it
\* is 0; the key is written anew if it exists.  The command is lost on its
\* way, or it runs (whether or not its reply then arrives).
BlacklistToken(store, tokenIdentifier, duration, t, fault) ==
  LET key == BlacklistKey(tokenIdentifier)
      entry == [ value |-> "revoked",
                 expireAt |-> IF duration > 0 THEN <<t + duration>> ELSE <<>> ]
  IN  IF fault = "lost_request" THEN store
      ELSE [ k \in DOMAIN ExpireKeys(store, t) \cup {key} |->
               IF k = key THEN entry ELSE store[k] ]

\* --------------------------------------------------- gobreaker.CircuitBreaker
\* A breaker is [state, generation, counts, expiry]; expiry is <<t>>, or <<>>
\* for the zero time.  counts carries the fields the gateway's settings read.
ClearCounts == [ Requests |-> 0, ConsecutiveSuccesses |-> 0, ConsecutiveFailures |-> 0 ]

\* The threshold compared with > instead of >=
ReadyToTripLate(counts) == counts.ConsecutiveFailures > 5

\* Settings.ReadyToTrip: open the circuit after 5 consecutive failures
ReadyToTrip(counts) == counts.ConsecutiveFailures >= 5

\* expiry.Before(now)
Before(expiry, t) == expiry # <<>> /\ expiry[1] < t

\* CircuitBreaker.toNewGeneration
toNewGeneration(b, t) ==
  [ b EXCEPT !.generation = @ + 1,
             !.counts = ClearCounts,
             !.expiry = CASE b.state = "closed" ->
                               IF Interval = 0 THEN <<>> ELSE <<t + Interval>>
                          [] b.state = "open" -> <<t + Timeout>>
                          [] OTHER -> <<>> ]

\* CircuitBreaker.setState
setState(b, state, t) ==
  IF b.state = state THEN b
  ELSE toNewGeneration([ b EXCEPT !.state = state ], t)

\* The time-driven transitions without the interval of the Closed state
currentStateNoInterval(b, t) ==
  IF b.state = "open" /\ Before(b.expiry, t) THEN setState(b, "half-open", t) ELSE b

\* CircuitBreaker.currentState: the breaker after the time-driven transitions
currentState(b, t) ==
  CASE b.state = "closed" ->
         IF b.expiry # <<>> /\ Before(b.expiry, t) THEN toNewGeneration(b, t) ELSE b
    [] b.state = "open" ->
         IF Before(b.expiry, t) THEN setState(b, "half-open", t) ELSE b
    [] OTHER -> b

\* gobreaker.NewCircuitBreaker(settings) at time t
NewCircuitBreaker(t) ==
  toNewGeneration([ state |-> "closed", generation |-> 0,
                    counts |-> ClearCounts, expiry |-> <<>> ], t)

\* HalfOpen admitting while the count has not passed MaxRequests
beforeRequestOneMore(b, t) ==
  LET c == currentState(b, t)
  IN  IF c.state = "open"
      THEN [ cb |-> c, generation |-> c.generation, err |-> "ErrOpenState" ]
      ELSE IF c.state = "half-open" /\ c.counts.Requests > MaxRequests
      THEN [ cb |-> c, generation |-> c.generation, err |-> "ErrTooManyRequests" ]
      ELSE [ cb |-> [ c EXCEPT !.counts.Requests = @ + 1 ],
             generation |-> c.generation, err |-> "nil" ]

\* CircuitBreaker.beforeRequest, under the breaker's mutex
beforeRequest(b, t) ==
  LET c == currentState(b, t)
  IN  IF c.state = "open"
      THEN [ cb |-> c, generation |-> c.generation, err |-> "ErrOpenState" ]
      ELSE IF c.state = "half-open" /\ c.counts.Requests >= MaxRequests
      THEN [ cb |-> c, generation |-> c.generation, err |-> "ErrTooManyRequests" ]
      ELSE [ cb |-> [ c EXCEPT !.counts.Requests = @ + 1 ],
             generation |-> c.generation, err |-> "nil" ]

\* HalfOpen closing only after more successes than it admits probes
onSuccessLate(b, t) ==
  LET counted == [ b EXCEPT !.counts.ConsecutiveSuccesses = @ + 1,
                            !.counts.ConsecutiveFailures = 0 ]
  IN  CASE b.state = "closed" -> counted
        [] b.state = "half-open" ->
             IF counted.counts.ConsecutiveSuccesses > MaxRequests
             THEN setState(counted, "closed", t) ELSE counted
        [] OTHER -> b

\* CircuitBreaker.onSuccess
onSuccess(b, t) ==
  LET counted == [ b EXCEPT !.counts.ConsecutiveSuccesses = @ + 1,
                            !.counts.ConsecutiveFailures = 0 ]
  IN  CASE b.state = "closed" -> counted
        [] b.state = "half-open" ->
             IF counted.counts.ConsecutiveSuccesses >= MaxRequests
             THEN setState(counted, "closed", t) ELSE counted
        [] OTHER -> b

\* A failure in half-open counted like one in closed
onFailureCounting(b, t) ==
  LET counted == [ b EXCEPT !.counts.ConsecutiveFailures = @ + 1,
                            !.counts.ConsecutiveSuccesses = 0 ]
  IN  IF b.state \in {"closed", "half-open"}
      THEN IF ReadyToTrip(counted.counts) THEN setState(counted, "open", t) ELSE counted
      ELSE b

\* CircuitBreaker.onFailure
onFailure(b, t) ==
  LET counted == [ b EXCEPT !.counts.ConsecutiveFailures = @ + 1,
                            !.counts.ConsecutiveSuccesses = 0 ]
  IN  CASE b.state = "closed" ->
             IF ReadyToTrip(counted.counts) THEN setState(counted, "open", t) ELSE counted
        [] b.state = "half-open" -> setState(b, "open", t)
        [] OTHER -> b

\* The outcome of an attempt recorded twice
afterRequestTwice(b, before, success, t) ==
  LET c == currentState(b, t)
      once == IF c.generation # before THEN c
              ELSE IF success THEN onSuccess(c, t) ELSE onFailure(c, t)
  IN  IF once.generation # before THEN once
      ELSE IF success THEN onSuccess(once, t) ELSE onFailure(once, t)

\* CircuitBreaker.afterRequest, under the breaker's mutex: an outcome of an
\* attempt admitted in an earlier generation is dropped.
afterRequest(b, before, success, t) ==
  LET c == currentState(b, t)
  IN  IF c.generation # before THEN c
      ELSE IF success THEN onSuccess(c, t) ELSE onFailure(c, t)


\* ----------------------------------------------------------------- requests
NoBody == [ empty |-> TRUE ]

\* A task without a request; the echo.Context of a new request starts like this.
\* The fields after "body" record which stages the request has passed; nth is
\* the place of its check among the checks of its key's window (0: not known)
\* and exhausted tells that its check failed on a key whose quota was used up;
\* ttlErr tells that the TTL lookup for its denial failed; blacklist tells
\* what ValidateToken's blacklist lookup returned ("none": no lookup made).
\* tries counts the failed sends of the increment under way.
\* xUserIDIn is the X-User-ID header the caller sent and xUserIDOut the one
\* on the outbound request (<<>>: no such header); connection holds the
\* header names listed in the caller's Connection header.
NewReq ==
  [ pc |-> "idle", route |-> "auth", ip |-> <<>>, authz |-> "none",
    blacklist |-> "none", user_id |-> <<>>, key |-> <<>>, count |-> 0, generation |-> 0,
    limitHdr |-> -1, remainingHdr |-> -1, retryAfterHdr |-> -1,
    status |-> 0, body |-> NoBody,
    authPassed |-> FALSE, rl |-> "none", cb |-> "none", called |-> FALSE,
    outcome |-> "none", backendStatus |-> 0, reported |-> "none", stale |-> FALSE,
    nth |-> 0, exhausted |-> FALSE, ttlErr |-> FALSE, tries |-> 0,
    xUserIDIn |-> <<>>, xUserIDOut |-> <<>>, connection |-> {} ]

\* c.JSON(status, body): the handler chain ends with this response
Respond(r, status, body) ==
  [ r EXCEPT !.pc = "done", !.status = status, !.body = body ]

\* Task t goes on as r
Continue(t, r) == req' = [ req EXCEPT ![t] = r ]

\* A route registered without ValidateToken
FirstStageNoAuth(route, haveRedis) == IF haveRedis THEN "ratelimit" ELSE "handle"

\* setupRoutes: the first middleware of a route's chain
FirstStage(route, haveRedis) ==
  IF RouteTable[route].protected THEN "auth"
  ELSE IF haveRedis THEN "ratelimit" ELSE "handle"

\* setupRoutes: what follows ValidateToken on a protected route
StageAfterAuth(haveRedis) == IF haveRedis THEN "ratelimit" ELSE "handle"

\* RateLimitByIP / RateLimitByUser: the limit key of a request
LimitKey(r) ==
  LET rt == RouteTable[r.route]
  IN  IF LimiterScope(rt.limiter) = "ip"
      THEN LimitKeyIP(r.ip, rt.path)
      ELSE LimitKeyUser(IF r.user_id = <<>> THEN r.ip ELSE r.user_id, rt.path)

\* ---------------------------------------------------------------- observers
\* hist[key] describes the fixed window the key is in: when the store created
\* its counter (a window runs as long as the counter lives), how many checks
\* were made since, which counter values they were given, and how many of them
\* were allowed on the count.
\* A key is followed until a store call on it fails (bad): from then on the
\* store's counter and the checks made no longer correspond.
ObserveCheck(h, key, window, t, res, limit, bad) ==
  LET open == key \in DOMAIN h /\ t <= h[key].start + window
      old == IF open THEN h[key]
             ELSE [ start |-> res.store[key].expireAt[1] - window,
                    window |-> window, limit |-> limit, n |-> 0,
                    seen |-> {}, dup |-> FALSE, allowed |-> 0 ]
      new == [ old EXCEPT
                 !.n = @ + 1,
                 !.seen = @ \cup {res.result},
                 !.dup = @ \/ res.result \in old.seen,
                 !.allowed = IF res.result <= limit THEN @ + 1 ELSE @ ]
  IN  IF bad \/ res.err
      THEN [ k \in DOMAIN h \ {key} |-> h[k] ]
      ELSE [ k \in DOMAIN h \cup {key} |-> IF k = key THEN new ELSE h[k] ]

\* The windows still running at time t
OpenWindows(h, t) ==
  [ k \in { x \in DOMAIN h : t <= h[x].start + h[x].window } |-> h[k] ]

\* streak[s]: the failures reported to breaker s, one after the other with no
\* success between them, by attempts of the breaker's current generation while
\* it is Closed.  b and b2 are the breaker before and after the step, report is
\* the outcome reported in the step ("none" when the step reports nothing) and
\* before is the generation the reporting attempt was admitted in.
ObserveReport(st, b, b2, report, before) ==
  IF b2.state # "closed" \/ b2.generation # b.generation THEN 0
  ELSE IF before # b.generation THEN st
  ELSE CASE report = "success" -> 0
         [] report = "failure" -> st + 1
         [] OTHER -> st

\* No outbound request is being prepared
NoForward ==
  [ stage |-> "idle", target |-> <<>>, incoming |-> <<>>, Path |-> <<>> ]

\* -------------------------------------------------------------------- Init
\* The store is shared and outlives the gateway: at startup it is empty, or
\* it already counts a caller who has one transfer left in this hour and
\* holds a token that was blacklisted for an hour.
WarmStore ==
  LET key == LimitKeyUser(<<"u1">>, RouteTable["transfers"].path)
      revoked == BlacklistKey("tokRevoked")
  IN  [ k \in {key, revoked} |->
          IF k = key
          THEN [ count |-> transferLimit.Limit - 1, expireAt |-> <<Hour>> ]
          ELSE [ value |-> "revoked", expireAt |-> <<Hour>> ] ]

\* The limit keys among the keys of a store
LimitKeysOf(store) == { k \in DOMAIN store : k[1] # "blacklist:" }

\* The same store without the blacklisted token
WarmCounters == [ k \in LimitKeysOf(WarmStore) |-> WarmStore[k] ]

StartupStores == { <<>>, WarmCounters, WarmStore }

Init ==
  /\ now = 0
  /\ redisClient \in BOOLEAN
  /\ redis \in (IF redisClient THEN StartupStores ELSE { <<>> })
  /\ breakers = [ s \in BreakerNames |-> NewCircuitBreaker(0) ]
  /\ req = [ t \in Tasks |-> NewReq ]
  /\ hist = <<>>
  /\ dirty = LimitKeysOf(redis)
  /\ streak = [ s \in BreakerNames |-> 0 ]
  /\ fwd = NoForward

\* ----------------------------------------------------------------- actions
\* Whether the counters a new request would move are below the model's bound:
\* the counter of its limit key and the request count of its breaker.
WithinBounds(r) ==
  LET key == LimitKey([ r EXCEPT !.user_id =
                          IF r.authz \in DOMAIN Tokens THEN Tokens[r.authz].sub ELSE <<>> ])
      serviceName == RouteTable[r.route].service
      cfg == LimiterConfig(RouteTable[r.route].limiter)
  IN  /\ Live(redis, key, now) => redis[key].count < cfg.Limit + MaxDenials
      /\ serviceName \in DOMAIN breakers =>
            breakers[serviceName].counts.Requests < MaxGenRequests

\* A request for one of the given routes arrives and is routed.  The
\* Authorization header is read on protected routes only.
ArriveFrom(t, routes, ips, authzs, xUserIDs, connections) ==
  /\ req[t].pc = "idle"
  /\ \E route \in routes, ip \in ips, authz \in authzs, xUserID \in xUserIDs,
        connection \in connections :
       LET r == [ NewReq EXCEPT !.pc = FirstStage(route, redisClient),
                                !.route = route, !.ip = ip, !.authz = authz,
                                !.xUserIDIn = xUserID, !.connection = connection ]
       IN  /\ (RouteTable[route].protected \/ authz = "none")
           /\ WithinBounds(r)
           /\ req' = [ req EXCEPT ![t] = r ]
  /\ UNCHANGED <<now, redisClient, redis, breakers, hist, dirty, streak, fwd>>

\* The same for callers that send no X-User-ID and no Connection header
ArriveWith(t, routes, ips, authzs) ==
  ArriveFrom(t, routes, ips, authzs, { <<>> }, { {} })

ArriveOn(t, routes) == ArriveWith(t, routes, IPs, AuthzValues)

\* The blacklist check failing closed: a failed lookup counts as revoked
RevokedOrUnknown(bl) == bl.result \/ bl.err

\* ValidateToken: if isBlacklisted, after an error that is only logged
Revoked(bl) == bl.result

\* AuthMiddleware.ValidateToken; "blacklist" notes what the lookup returned
ValidateToken(t) ==
  LET r == req[t]
  IN
  /\ r.pc = "auth"
  /\ \E fault \in {"ok", "lost_request"} :
       LET lookup == redisClient /\ r.authz \in DOMAIN Tokens
           bl == IF lookup THEN IsTokenBlacklisted(redis, r.authz, now, fault)
                 ELSE [ result |-> FALSE, err |-> FALSE ]
           seen == [ r EXCEPT !.blacklist = IF ~lookup THEN "none"
                                            ELSE IF bl.err THEN "error"
                                            ELSE IF bl.result THEN "present"
                                            ELSE "absent" ]
           deny(msg) == Respond(seen, StatusUnauthorized, [ error |-> msg ])
       IN
       /\ lookup \/ fault = "ok"
       /\ Continue(t,
            CASE r.authz = "none" -> deny("Missing authorization header")
              [] r.authz = "malformed" -> deny("Invalid authorization format")
              [] Revoked(bl) -> deny("Token has been revoked")
              [] ~Tokens[r.authz].valid -> deny("Invalid token")
              [] OTHER -> [ seen EXCEPT !.pc = StageAfterAuth(redisClient),
                                        !.user_id = Tokens[r.authz].sub,
                                        !.authPassed = TRUE ])
  /\ UNCHANGED <<now, redisClient, redis, breakers, hist, dirty, streak, fwd>>

\* The limiter counting without ever denying
ExceededNever(count, cfg) == count > cfg.Limit /\ count <= cfg.Limit

\* checkLimit: count > cfg.Limit
Exceeded(count, cfg) == count > cfg.Limit

\* checkLimit: the X-RateLimit-Remaining header
Remaining(count, cfg) == Max(0, cfg.Limit - count)

\* The limiter failing closed: a store error is answered like a used-up quota
FailClosed(r) ==
  Respond([ r EXCEPT !.rl = "error" ], StatusTooManyRequests,
          [ error |-> "Rate limit exceeded" ])

\* checkLimit, err != nil: fail open, the request goes on to next(c)
FailOpen(r) == [ r EXCEPT !.pc = "handle", !.rl = "error" ]

\* checkLimit: the Retry-After value from the TTL lookup's answer
RetryAfter(ttl, cfg) ==
  LET retryAfter == DurationSeconds(ttl)
  IN  IF retryAfter <= 0 THEN DurationSeconds(cfg.Window) ELSE retryAfter

\* RateLimiter.checkLimit up to its decision: the increment, the headers, and
\* either next(c) or the way to the denial.
CheckLimitWith(t, faults) ==
  LET r == req[t]
      cfg == LimiterConfig(RouteTable[r.route].limiter)
      key == LimitKey(r)
  IN
  /\ r.pc = "ratelimit"
  /\ \E fault \in faults :
       LET res == IncrementWithExpiry(redis, key, cfg.Window, now, fault, r.tries)
       IN
       /\ redis' = res.store
       /\ IF res.again
          THEN /\ req' = [ req EXCEPT ![t].key = key, ![t].tries = @ + 1 ]
               /\ UNCHANGED <<hist, dirty>>
          ELSE /\ hist' = ObserveCheck(hist, key, cfg.Window, now, res, cfg.Limit,
                                       key \in dirty)
               /\ dirty' = IF res.err THEN dirty \cup {key} ELSE dirty
               /\ Continue(t,
                    IF res.err
                    THEN FailOpen([ r EXCEPT !.key = key, !.tries = 0,
                                             !.exhausted = Live(redis, key, now)
                                                           /\ redis[key].count >= cfg.Limit ])
                    ELSE [ r EXCEPT !.pc = IF Exceeded(res.result, cfg) THEN "ttl" ELSE "handle",
                                    !.key = key, !.count = res.result, !.tries = 0,
                                    !.limitHdr = cfg.Limit,
                                    !.remainingHdr = Remaining(res.result, cfg),
                                    !.rl = IF Exceeded(res.result, cfg) THEN "deny" ELSE "allow",
                                    !.nth = IF key \in DOMAIN hist' THEN hist'[key].n ELSE 0 ])
  /\ UNCHANGED <<now, redisClient, breakers, streak, fwd>>

\* The same with a store that may fail in every way
CheckLimit(t) == CheckLimitWith(t, StoreFaults)

\* The same with a store that answers every command
CheckLimitAnswered(t) == CheckLimitWith(t, Answered)

\* RateLimiter.checkLimit, count > cfg.Limit: the TTL lookup and the 429
DenyLimit(t) ==
  LET r == req[t]
      cfg == LimiterConfig(RouteTable[r.route].limiter)
  IN
  /\ r.pc = "ttl"
  /\ \E fault \in {"ok", "lost_request"} :
       LET retryAfter == RetryAfter(TTL(redis, r.key, now, fault).ttl, cfg)
       IN  Continue(t,
             Respond([ r EXCEPT !.retryAfterHdr = retryAfter,
                                !.ttlErr = TTL(redis, r.key, now, fault).err ],
                     StatusTooManyRequests,
                     [ error |-> "Rate limit exceeded", retry_after |-> retryAfter ]))
  /\ UNCHANGED <<now, redisClient, redis, breakers, hist, dirty, streak, fwd>>


\* The lookup's miss ignored: the request goes on to the outbound call
NotConfiguredFallThrough(r) == [ r EXCEPT !.pc = "proxy", !.called = TRUE ]

\* Handle: the answer for a service name without configuration
NotConfigured(r) ==
  Respond(r, StatusServiceUnavailable, [ error |-> "Service not configured" ])

\* Handle: errors.Is(err, ErrOpenState) || errors.Is(err, ErrTooManyRequests)
IsBreakerError(err) == err \in {"ErrOpenState", "ErrTooManyRequests"}

\* Handle: the answer for an attempt the breaker rejected
BreakerOpenResponse(r, serviceName) ==
  Respond(r, StatusServiceUnavailable,
          [ error |-> "Service temporarily unavailable", service |-> serviceName ])

\* doProxy's Director: the outbound request is a copy of the inbound one, and
\* X-User-ID is overwritten if the context carries a non-empty user_id
DirectorUserID(r) == IF r.user_id # <<>> THEN r.user_id ELSE r.xUserIDIn

\* proxy.ServeHTTP after the Director: the hop-by-hop headers are removed
\* from the outbound request, those listed in its Connection header included
OutboundUserID(r) ==
  IF "X-User-ID" \in r.connection THEN <<>> ELSE DirectorUserID(r)

\* One breaker for all services
BreakerShared(serviceName) == CHOOSE s \in BreakerNames : TRUE

\* Handle: h.breakers[serviceName], the cell of the service's breaker in the
\* registry built by NewProxyHandler
BreakerCell(serviceName) == serviceName

\* ProxyHandler.Handle up to the outbound call: the service lookup, the URL, the
\* breaker lookup and, with a breaker, Execute's beforeRequest.
Handle(t) ==
  LET r == req[t]
      serviceName == RouteTable[r.route].service
      cell == BreakerCell(serviceName)
  IN
  /\ r.pc = "handle"
  /\ IF serviceName \notin DOMAIN Services
     THEN /\ Continue(t, NotConfigured(r))
          /\ UNCHANGED <<breakers, streak>>
     ELSE IF ~Services[serviceName].urlOk
     THEN /\ Continue(t,
                 Respond(r, StatusInternalServerError, [ error |-> "Configuration error" ]))
          /\ UNCHANGED <<breakers, streak>>
     ELSE IF serviceName \in DOMAIN breakers
     THEN LET a == beforeRequest(breakers[cell], now)
          IN  /\ breakers' = [ breakers EXCEPT ![cell] = a.cb ]
              /\ streak' = [ streak EXCEPT ![cell] =
                               ObserveReport(@, breakers[cell], a.cb, "none", 0) ]
              /\ Continue(t,
                   IF a.err = "nil"
                   THEN [ r EXCEPT !.pc = "proxy", !.cb = "permitted",
                                   !.generation = a.generation, !.called = TRUE,
                                   !.xUserIDOut = OutboundUserID(r) ]
                   ELSE IF IsBreakerError(a.err)
                   THEN [ r EXCEPT !.pc = "cbstate", !.cb = "rejected" ]
                   ELSE [ r EXCEPT !.pc = "done", !.cb = "rejected" ])
     ELSE /\ Continue(t, [ r EXCEPT !.pc = "proxy", !.called = TRUE,
                                    !.xUserIDOut = OutboundUserID(r) ])
          /\ UNCHANGED <<breakers, streak>>
  /\ UNCHANGED <<now, redisClient, redis, hist, dirty, fwd>>

\* ProxyHandler.Handle, ErrOpenState or ErrTooManyRequests: the warning, which
\* reads cb.State(), and the 503
RejectOpen(t) ==
  LET r == req[t]
      serviceName == RouteTable[r.route].service
      cell == BreakerCell(serviceName)
      b2 == currentState(breakers[cell], now)
  IN
  /\ r.pc = "cbstate"
  /\ breakers' = [ breakers EXCEPT ![cell] = b2 ]
  /\ streak' = [ streak EXCEPT ![cell] =
                   ObserveReport(@, breakers[cell], b2, "none", 0) ]
  /\ Continue(t, BreakerOpenResponse(r, serviceName))
  /\ UNCHANGED <<now, redisClient, redis, hist, dirty, fwd>>

\* doProxy's ErrorHandler: the response written for a transport error.  No
\* earlier stage sets a Content-Type, so the handler always writes.
ErrorHandler(r) ==
  [ r EXCEPT !.status = StatusBadGateway, !.body = [ error |-> "Service Unavailable" ] ]

\* doProxy's return value: proxyErr is set by ErrorHandler only, so a backend
\* response of any status leaves it nil.
ProxyErr(o) == o.err

\* gobreaker's default IsSuccessful
IsSuccessful(err) == ~err

\* proxy.ServeHTTP: the status line and the headers of the backend's response
\* are written, and when the copy of its body fails the handler is aborted
\* with panic(http.ErrAbortHandler); ErrorHandler is not called.
Panics(o) == ~o.err /\ o.copyErr

\* cb.Execute: the outcome handed to afterRequest, by the deferred recover
\* when the call panics (which then panics again) and from the call's error
\* otherwise
ExecuteSuccess(o) == IF Panics(o) THEN FALSE ELSE IsSuccessful(ProxyErr(o))

\* How the outbound call ended
OutcomeOf(o) ==
  IF o.err THEN "transport_error" ELSE IF Panics(o) THEN "aborted" ELSE "response"

\* The outbound call ends.  doProxy returns (ErrorHandler has run on a
\* transport error, the backend's response is relayed otherwise), Execute's
\* afterRequest records the outcome and Handle returns; or ServeHTTP panics
\* with the response begun, Execute records a failure on the panic's way up,
\* echo's Recover passes the panic on and the server drops the connection.
ProxyReturn(t) ==
  LET r == req[t]
      serviceName == RouteTable[r.route].service
      cell == BreakerCell(serviceName)
  IN
  /\ r.pc = "proxy"
  /\ \E o \in BackendOutcomes :
       LET answered == IF o.err THEN ErrorHandler(r)
                       ELSE [ r EXCEPT !.status = o.status,
                                       !.body = [ relayed |-> ~Panics(o) ] ]
           report == IF ExecuteSuccess(o) THEN "success" ELSE "failure"
       IN
       IF r.cb = "permitted"
       THEN LET b == breakers[cell]
                b2 == afterRequest(b, r.generation, ExecuteSuccess(o), now)
            IN  /\ breakers' = [ breakers EXCEPT ![cell] = b2 ]
                /\ streak' = [ streak EXCEPT ![cell] =
                                 ObserveReport(@, b, b2, report, r.generation) ]
                /\ Continue(t,
                     [ answered EXCEPT !.pc = "done",
                                       !.outcome = OutcomeOf(o),
                                       !.backendStatus = o.status,
                                       !.reported = report,
                                       !.stale = (currentState(b, now).generation # r.generation) ])
       ELSE /\ Continue(t,
                 [ answered EXCEPT !.pc = "done",
                                   !.outcome = OutcomeOf(o),
                                   !.backendStatus = o.status ])
            /\ UNCHANGED <<breakers, streak>>
  /\ UNCHANGED <<now, redisClient, redis, hist, dirty, fwd>>

\* Time passes; the store drops the keys whose expiry time has come.  The
\* clock does not wait for a call in progress: a key can expire between two
\* sends of one increment.
TickWithin(step, end) ==
  /\ now + step <= end
  /\ now' = now + step
  /\ redis' = ExpireKeys(redis, now')
  /\ hist' = OpenWindows(hist, now')
  /\ UNCHANGED <<redisClient, breakers, req, dirty, streak, fwd>>

TickBy(step) == TickWithin(step, MaxTime)

Tick == TickBy(TickStep)

\* A step that ends a little before the full one
TickShort == TickBy(TickStep - Jitter)

\* The same in steps three times as long
TickCoarse == TickBy(3 * TickStep)

\* The coarse clock running on until counters have expired: a counter lives
\* through the stop its expiry time falls on and is gone at the next
TickWindows == TickWithin(3 * TickStep, MaxWindowTime)

\* The response of a finished request is handed to the caller and the task is
\* free for the next request.
Deliver(t) ==
  /\ req[t].pc = "done"
  /\ req' = [ req EXCEPT ![t] = NewReq ]
  /\ UNCHANGED <<now, redisClient, redis, breakers, hist, dirty, streak, fwd>>

\* No response is waiting to be handed over
Quiet == \A t \in Tasks : req[t].pc # "done"

\* The pipeline steps of a task
Step(t) ==
  \/ ValidateToken(t)
  \/ CheckLimit(t)
  \/ DenyLimit(t)
  \/ Handle(t)
  \/ RejectOpen(t)
  \/ ProxyReturn(t)

\* A finished request is handed over before anything else happens: Deliver
\* touches nothing the tasks share, so no interleaving of the shared state is
\* lost by taking it first.
Next ==
  \/ Quiet /\ \E t \in Tasks : ArriveOn(t, Routes)
  \/ Quiet /\ \E t \in Tasks : Step(t)
  \/ Quiet /\ Tick
  \/ \E t \in Tasks : Deliver(t)

Spec == Init /\ [][Next]_vars

\* The rate limiter on the public route: the store starts empty and every
\* request is for /api/auth/*, whose chain is checkLimit -> Handle.
InitPublic == Init /\ redisClient /\ redis = <<>>

NextPublic ==
  \/ Quiet /\ \E t \in Tasks : ArriveOn(t, {"auth"})
  \/ Quiet /\ \E t \in Tasks : CheckLimit(t)
  \/ Quiet /\ \E t \in Tasks : DenyLimit(t)
  \/ Quiet /\ \E t \in Tasks : Handle(t)
  \/ Quiet /\ \E t \in Tasks : ProxyReturn(t)
  \/ Quiet /\ TickWindows
  \/ \E t \in Tasks : Deliver(t)

SpecPublic == InitPublic /\ [][NextPublic]_vars

\* The same with a store that answers every increment, and a clock that also
\* stops between the whole seconds a counter's expiry falls on and runs on
\* past that expiry
NextRetry ==
  \/ Quiet /\ \E t \in Tasks : ArriveOn(t, {"auth"})
  \/ Quiet /\ \E t \in Tasks : CheckLimitAnswered(t)
  \/ Quiet /\ \E t \in Tasks : DenyLimit(t)
  \/ Quiet /\ \E t \in Tasks : Handle(t)
  \/ Quiet /\ \E t \in Tasks : ProxyReturn(t)
  \/ Quiet /\ Tick
  \/ Quiet /\ TickShort
  \/ Quiet /\ TickWindows
  \/ \E t \in Tasks : Deliver(t)

SpecRetry == InitPublic /\ [][NextRetry]_vars

\* The limiters of all routes at work on requests from several addresses and
\* with several kinds of valid token: each task takes one request as far as
\* the limiter's increment.
NextKey ==
  \E t \in Tasks :
    \/ ArriveWith(t, Routes, KeyIPs, KeyAuthzValues)
    \/ ValidateToken(t)
    \/ CheckLimitAnswered(t)

SpecKey == InitPublic /\ [][NextKey]_vars

\* The gateway started without the store (main: "rate limiting disabled"):
\* no route has a limiter and ValidateToken skips the blacklist.  Requests
\* are for a breaker-enabled service and for the unconfigured one.
InitNoLimiter == Init /\ ~redisClient

NextNoLimiter ==
  \/ Quiet /\ \E t \in Tasks : ArriveOn(t, {"transfers", "reporting"})
  \/ Quiet /\ \E t \in Tasks : ValidateToken(t)
  \/ Quiet /\ \E t \in Tasks : Handle(t)
  \/ Quiet /\ \E t \in Tasks : RejectOpen(t)
  \/ Quiet /\ \E t \in Tasks : ProxyReturn(t)
  \/ Quiet /\ Tick
  \/ \E t \in Tasks : Deliver(t)

SpecNoLimiter == InitNoLimiter /\ [][NextNoLimiter]_vars

\* The same deployment with requests for the two breaker-enabled services,
\* one caller for each, and time passing in one step that outlasts the
\* cool-down.
RoutesOfTask(t) == IF t % 2 = 1 THEN {"transfers"} ELSE {"users"}

TickLong == TickBy(6 * TickStep)

NextTwoServices ==
  \/ Quiet /\ \E t \in Tasks : ArriveOn(t, RoutesOfTask(t))
  \/ Quiet /\ \E t \in Tasks : ValidateToken(t)
  \/ Quiet /\ \E t \in Tasks : Handle(t)
  \/ Quiet /\ \E t \in Tasks : RejectOpen(t)
  \/ Quiet /\ \E t \in Tasks : ProxyReturn(t)
  \/ Quiet /\ TickLong
  \/ \E t \in Tasks : Deliver(t)

SpecTwoServices == InitNoLimiter /\ [][NextTwoServices]_vars

\* The protected route /api/transfers/* with callers that present valid
\* tokens of several kinds, an X-User-ID header of their choice and a
\* Connection header that may list it.
NextIdentity ==
  \/ Quiet /\ \E t \in Tasks :
                 ArriveFrom(t, {"transfers"}, IPs, KeyAuthzValues, InboundUserIDs,
                            InboundConnections)
  \/ Quiet /\ \E t \in Tasks : ValidateToken(t)
  \/ Quiet /\ \E t \in Tasks : Handle(t)
  \/ Quiet /\ \E t \in Tasks : RejectOpen(t)
  \/ Quiet /\ \E t \in Tasks : ProxyReturn(t)
  \/ \E t \in Tasks : Deliver(t)

SpecIdentity == InitNoLimiter /\ [][NextIdentity]_vars

\* The whole chain on one route: requests for /api/transfers/* (ValidateToken
\* -> checkLimit -> Handle with a breaker) by a caller close to the quota.
InitPipeline == Init /\ redisClient /\ redis = WarmStore

NextPipeline ==
  \/ Quiet /\ \E t \in Tasks : ArriveOn(t, {"transfers"})
  \/ Quiet /\ \E t \in Tasks : ValidateToken(t)
  \/ Quiet /\ \E t \in Tasks : CheckLimitAnswered(t)
  \/ Quiet /\ \E t \in Tasks : DenyLimit(t)
  \/ Quiet /\ \E t \in Tasks : Handle(t)
  \/ Quiet /\ \E t \in Tasks : RejectOpen(t)
  \/ Quiet /\ \E t \in Tasks : ProxyReturn(t)
  \/ Quiet /\ TickCoarse
  \/ \E t \in Tasks : Deliver(t)

SpecPipeline == InitPipeline /\ [][NextPipeline]_vars

\* ----------------------------------------- forwarding: a backend that hangs
\* The backend has accepted the connection of request t and will never
\* answer.  The Transport of doProxy sets no ResponseHeaderTimeout, no dial
\* timeout and no deadline, and Service.Timeout is read nowhere.
BackendSilent(t) ==
  /\ req[t].pc = "proxy" /\ req[t].outcome = "none"
  /\ req' = [ req EXCEPT ![t].outcome = "silent" ]
  /\ UNCHANGED <<now, redisClient, redis, breakers, hist, dirty, streak, fwd>>

\* The backend answers, or the call fails at transport level
ProxyAnswered(t) ==
  /\ req[t].outcome = "none"
  /\ ProxyReturn(t)

\* The inbound request's context is cancelled (the caller went away) while
\* the outbound call waits: RoundTrip fails and ErrorHandler runs.
Cancelled(t) ==
  /\ req[t].outcome = "silent"
  /\ ProxyReturn(t)
  /\ req'[t].outcome = "transport_error"

\* Requests for the breaker-enabled service, with backends that may hang;
\* time stands still.
NextHang ==
  \/ Quiet /\ \E t \in Tasks : ArriveOn(t, {"transfers"})
  \/ Quiet /\ \E t \in Tasks : ValidateToken(t)
  \/ Quiet /\ \E t \in Tasks : Handle(t)
  \/ Quiet /\ \E t \in Tasks : RejectOpen(t)
  \/ Quiet /\ \E t \in Tasks : BackendSilent(t)
  \/ Quiet /\ \E t \in Tasks : ProxyAnswered(t)
  \/ Quiet /\ \E t \in Tasks : Cancelled(t)
  \/ \E t \in Tasks : Deliver(t)

\* The gateway's own steps are taken when they can be, and a backend that is
\* going to answer does, however often responses of other requests are being
\* handed over in between; nothing makes a caller go away.
FairHang ==
  \A t \in Tasks :
    /\ SF_vars(Quiet /\ ValidateToken(t))
    /\ SF_vars(Quiet /\ Handle(t))
    /\ SF_vars(Quiet /\ RejectOpen(t))
    /\ SF_vars(Quiet /\ ProxyAnswered(t))
    /\ WF_vars(Deliver(t))

SpecHang == InitNoLimiter /\ [][NextHang]_vars /\ FairHang

\* ------------------------------------------------ a backend that recovers
\* Outbound calls to transaction-service may fail at transport level until
\* the clock first moves; from then on every call is answered.
ProxyFails(t) ==
  /\ now = 0
  /\ ProxyReturn(t)
  /\ req'[t].outcome = "transport_error"

ProxySucceeds(t) ==
  /\ ProxyReturn(t)
  /\ req'[t].outcome = "response"

\* Callers with a valid token keep sending requests for /api/transfers/*
ArriveValid(t) == ArriveWith(t, {"transfers"}, IPs, {"tokA"})

NextRecover ==
  \/ Quiet /\ \E t \in Tasks : ArriveValid(t)
  \/ Quiet /\ \E t \in Tasks : ValidateToken(t)
  \/ Quiet /\ \E t \in Tasks : Handle(t)
  \/ Quiet /\ \E t \in Tasks : RejectOpen(t)
  \/ Quiet /\ \E t \in Tasks : ProxyFails(t)
  \/ Quiet /\ \E t \in Tasks : ProxySucceeds(t)
  \/ Quiet /\ Tick
  \/ \E t \in Tasks : Deliver(t)

\* The steps of a request whose outbound call, if any, is answered
StepRecover(t) ==
  \/ ArriveValid(t)
  \/ ValidateToken(t)
  \/ Handle(t)
  \/ RejectOpen(t)
  \/ ProxySucceeds(t)

\* The clock goes on, requests keep arriving and every step of a request is
\* taken in the end, the return of its outbound call included.
FairRecover ==
  /\ SF_vars(Quiet /\ Tick)
  /\ \A t \in Tasks : SF_vars(Quiet /\ StepRecover(t)) /\ WF_vars(Deliver(t))

SpecRecover == InitNoLimiter /\ [][NextRecover]_vars /\ FairRecover

\* ------------------------------------------------ tokens being revoked
\* A token is revoked: whoever shares the store (the gateway has the method
\* and no caller of it) blacklists it for some time.
RevokeToken ==
  /\ redisClient
  /\ \E tokenIdentifier \in RevocableTokens, duration \in BlacklistDurations,
        fault \in {"ok", "lost_request"} :
       redis' = BlacklistToken(redis, tokenIdentifier, duration, now, fault)
  /\ UNCHANGED <<now, redisClient, breakers, req, hist, dirty, streak, fwd>>

\* The chain of /api/transfers/* while tokens are being revoked and
\* revocations run out: the store starts without any blacklisted token, and
\* the backend answers every call.
InitBlacklist == Init /\ redisClient /\ redis = WarmCounters

NextBlacklist ==
  \/ Quiet /\ \E t \in Tasks : ArriveWith(t, {"transfers"}, IPs, BlacklistAuthzValues)
  \/ Quiet /\ RevokeToken
  \/ Quiet /\ \E t \in Tasks : ValidateToken(t)
  \/ Quiet /\ \E t \in Tasks : CheckLimitAnswered(t)
  \/ Quiet /\ \E t \in Tasks : DenyLimit(t)
  \/ Quiet /\ \E t \in Tasks : Handle(t)
  \/ Quiet /\ \E t \in Tasks : ProxySucceeds(t)
  \/ Quiet /\ TickCoarse
  \/ \E t \in Tasks : Deliver(t)

SpecBlacklist == InitBlacklist /\ [][NextBlacklist]_vars

\* ------------------------------------------------- forwarding: the Director
\* A URL path is a sequence of characters.
PathChars == {"/", "a", "p", "i"}

\* All sequences over S of length at most n
SeqsUpTo(S, n) == UNION { [1..k -> S] : k \in 0..n }

\* strings.HasPrefix / strings.HasSuffix / strings.TrimPrefix
HasPrefix(str, prefix) ==
  Len(str) >= Len(prefix) /\ SubSeq(str, 1, Len(prefix)) = prefix

HasSuffix(str, suffix) ==
  Len(str) >= Len(suffix) /\ SubSeq(str, Len(str) - Len(suffix) + 1, Len(str)) = suffix

TrimPrefix(str, prefix) ==
  IF HasPrefix(str, prefix) THEN SubSeq(str, Len(prefix) + 1, Len(str)) ELSE str

\* The routing prefix the Director strips
ApiPrefix == <<"/", "a", "p", "i">>

\* setupRoutes: the group of each route, in characters
GroupName ==
  [ auth      |-> <<"a", "u", "t", "h">>,
    transfers |-> <<"t", "r", "a", "n", "s", "f", "e", "r", "s">>,
    users     |-> <<"u", "s", "e", "r", "s">>,
    reporting |-> <<"r", "e", "p", "o", "r", "t", "i", "n", "g">>,
    aml       |-> <<"a", "m", "l">> ]

\* The request paths a route's pattern /api/<group>/* matches
RoutedPaths ==
  { ApiPrefix \o <<"/">> \o GroupName[r] \o <<"/">> \o rest :
      r \in Routes, rest \in SeqsUpTo(PathChars, MaxSuffixLen) }

\* The path part of a service's configured URL: none, "/", or a base path
\* (http://host/v1, http://host/api)
TargetPaths == { <<>>, <<"/">>, <<"/", "v", "1">>, ApiPrefix }

\* httputil's singleJoiningSlash, by which NewSingleHostReverseProxy's
\* director joins the target's path and the request's path
singleJoiningSlash(a, b) ==
  LET aslash == HasSuffix(a, <<"/">>)
      bslash == HasPrefix(b, <<"/">>)
  IN  CASE aslash /\ bslash -> a \o SubSeq(b, 2, Len(b))
        [] ~aslash /\ ~bslash -> a \o <<"/">> \o b
        [] OTHER -> a \o b

\* Director: strip the /api prefix, then make the path absolute
RewritePath(path) ==
  LET stripped == TrimPrefix(path, ApiPrefix)
  IN  IF stripped = <<>> \/ ~HasPrefix(stripped, <<"/">>)
      THEN <<"/">> \o stripped
      ELSE stripped

\* A routed request reaches doProxy for a service with some target URL.
Inbound ==
  /\ fwd.stage = "idle"
  /\ \E path \in RoutedPaths, target \in TargetPaths :
       fwd' = [ stage |-> "inbound", target |-> target, incoming |-> path,
                Path |-> path ]
  /\ UNCHANGED <<now, redisClient, redis, breakers, req, hist, dirty, streak>>

\* Director: originalDirector(req)
OriginalDirector ==
  /\ fwd.stage = "inbound"
  /\ fwd' = [ fwd EXCEPT !.stage = "joined",
                          !.Path = singleJoiningSlash(fwd.target, fwd.Path) ]
  /\ UNCHANGED <<now, redisClient, redis, breakers, req, hist, dirty, streak>>

\* Director: the path rewrite; the request then goes out with this path
DirectorRewrite ==
  /\ fwd.stage = "joined"
  /\ fwd' = [ fwd EXCEPT !.stage = "sent", !.Path = RewritePath(fwd.Path) ]
  /\ UNCHANGED <<now, redisClient, redis, breakers, req, hist, dirty, streak>>

\* The outbound request has left
Sent ==
  /\ fwd.stage = "sent"
  /\ fwd' = NoForward
  /\ UNCHANGED <<now, redisClient, redis, breakers, req, hist, dirty, streak>>

\* doProxy's Director on the requests the routes let through
InitForward == Init /\ ~redisClient

NextForward ==
  \/ Inbound
  \/ OriginalDirector
  \/ DirectorRewrite
  \/ Sent

SpecForward == InitForward /\ [][NextForward]_vars

\* ------------------------------------------------------------------ claims
\* The requests whose response is written
Done(t) == req[t].pc = "done"

\* The quota and the window of the limiter on a request's route
QuotaOf(r) == LimiterConfig(RouteTable[r.route].limiter).Limit
WindowOf(r) == LimiterConfig(RouteTable[r.route].limiter).Window

\* C1 as stated: while the store answers the gateway's calls, the N-th request
\* on a key within one window (N counted from the request that opened the
\* window) is allowed with remaining = Q - N when N <= Q, and is denied with
\* status 429 and a retry-after of at most the window length W when N > Q.
C1_AsStated ==
  \A t \in Tasks :
    LET r == req[t]
    IN  r.nth > 0 =>
          /\ r.limitHdr = QuotaOf(r)
          /\ r.nth <= QuotaOf(r) =>
                /\ r.rl = "allow"
                /\ r.remainingHdr = QuotaOf(r) - r.nth
                /\ r.pc \in {"handle", "proxy", "done"}
                /\ Done(t) => r.status # StatusTooManyRequests
          /\ r.nth > QuotaOf(r) =>
                /\ r.rl = "deny"
                /\ r.remainingHdr = 0
                /\ r.pc \in {"ttl", "done"}
                /\ ~r.called
                /\ Done(t) =>
                      /\ r.status = StatusTooManyRequests
                      /\ r.body.retry_after = r.retryAfterHdr
                      /\ r.retryAfterHdr >= 1
                      /\ r.retryAfterHdr * Second <= WindowOf(r)

\* C2: the checks on one key, however they interleave across tasks, lose no
\* increment: within a window no two of them observe the same count, the
\* store's counter is at least the number of checks made and at least every
\* count observed, and at most Q checks are allowed.
C2_NoLostIncrement ==
  \A k \in DOMAIN hist :
    /\ ~hist[k].dup
    /\ hist[k].allowed <= hist[k].limit
    /\ Live(redis, k, now)
    /\ redis[k].count >= hist[k].n
    /\ hist[k].seen \subseteq 1..redis[k].count

\* Two requests are in flight on one key at once, past their checks, one of
\* them allowed as the last of the quota and the other denied.
C2_Witness ==
  \E t, u \in Tasks :
    /\ t # u /\ req[t].key = req[u].key /\ req[t].key \in DOMAIN hist
    /\ req[t].pc = "handle" /\ req[u].pc = "ttl"
    /\ req[t].nth = QuotaOf(req[t]) /\ req[u].nth = QuotaOf(req[u]) + 1
    /\ hist[req[t].key].allowed = QuotaOf(req[t])

\* C3: a request whose counter increment failed with a store error is
\* treated as allowed: it goes on to the next stage and the limiter gives it
\* neither a 429 nor any other response.
C3_FailOpen ==
  \A t \in Tasks :
    req[t].rl = "error" =>
      /\ req[t].pc \in {"handle", "proxy", "done"}
      /\ req[t].retryAfterHdr = NewReq.retryAfterHdr
      /\ Done(t) =>
            /\ req[t].status # StatusTooManyRequests
            /\ req[t].called
            /\ req[t].outcome # "none"

\* A request whose increment failed while the key's quota was used up has
\* been forwarded and answered by the backend.
C3_Witness ==
  \E t \in Tasks :
    /\ req[t].rl = "error" /\ req[t].exhausted
    /\ Done(t) /\ req[t].outcome = "response" /\ req[t].status = 200

\* The breaker of the service a request is for (requests with an attempt only)
BreakerOf(t) == breakers[RouteTable[req[t].route].service]

\* The step in which the attempt of request t reports its outcome
Reports(t) ==
  /\ req[t].pc = "proxy" /\ req[t].cb = "permitted"
  /\ req'[t].pc = "done"

\* The step in which request t asks its service's breaker for admission
Attempts(t) ==
  /\ req[t].pc = "handle" /\ req'[t].pc # "handle"
  /\ RouteTable[req[t].route].service \in BreakerNames

\* C4 as stated: in Closed the 5th of 5 consecutive reported failures opens
\* the breaker, and a reported success resets the consecutive-failure count
\* to 0 and leaves the breaker Closed.
C4_AsStated ==
  [][ \A t \in Tasks :
        (Reports(t) /\ BreakerOf(t).state = "closed") =>
          /\ (req'[t].reported = "failure"
                 /\ BreakerOf(t).counts.ConsecutiveFailures = 4)
               => BreakerOf(t)'.state = "open"
          /\ req'[t].reported = "success"
               => /\ BreakerOf(t)'.state = "closed"
                  /\ BreakerOf(t)'.counts.ConsecutiveFailures = 0 ]_vars

\* C4, amended: the same for the reports of attempts admitted in the
\* breaker's current generation, that is since the last 10 s interval boundary
\* or state change: the 5th failure in a row opens the breaker with a 30 s
\* cool-down, a failure before it adds one to the count, a success resets
\* the count to 0 and leaves the breaker Closed.  A report of an earlier
\* generation's attempt changes no count, and the count starts again from 0
\* with every generation, so Closed never holds 5 failures in a row.
C4_CurrentGeneration ==
  [][ /\ \A t \in Tasks :
           (Reports(t) /\ BreakerOf(t).state = "closed") =>
             LET c == currentState(BreakerOf(t), now)
             IN  IF req'[t].stale
                 THEN BreakerOf(t)' = c
                 ELSE /\ (req'[t].reported = "failure" /\ c.counts.ConsecutiveFailures = 4)
                           => /\ BreakerOf(t)'.state = "open"
                              /\ BreakerOf(t)'.expiry = <<now + 30 * Second>>
                      /\ (req'[t].reported = "failure" /\ c.counts.ConsecutiveFailures < 4)
                           => /\ BreakerOf(t)'.state = "closed"
                              /\ BreakerOf(t)'.counts.ConsecutiveFailures
                                   = c.counts.ConsecutiveFailures + 1
                      /\ req'[t].reported = "success"
                           => /\ BreakerOf(t)'.state = "closed"
                              /\ BreakerOf(t)'.counts.ConsecutiveFailures = 0
      /\ \A s \in BreakerNames :
           breakers'[s].state = "closed" =>
             /\ streak'[s] < 5
             /\ breakers'[s].counts.ConsecutiveFailures = streak'[s] ]_vars

\* The fifth failure in a row of one generation has just opened the breaker.
C4_Witness ==
  \E t \in Tasks :
    /\ Done(t) /\ req[t].reported = "failure" /\ ~req[t].stale
    /\ BreakerOf(t).state = "open"
    /\ BreakerOf(t).generation = req[t].generation + 1

\* C5: while the breaker is Open and no more than 30 s have passed since it
\* opened, every attempt is rejected, starts no outbound call, leaves the
\* breaker as it is and is answered 503; the first attempt after that is
\* permitted and the breaker is HalfOpen.
C5_OpenRejects ==
  [][ /\ \A t \in Tasks :
           /\ (Attempts(t) /\ BreakerOf(t).state = "open") =>
                 IF now <= BreakerOf(t).expiry[1]
                 THEN /\ req'[t].cb = "rejected" /\ req'[t].pc = "cbstate"
                      /\ ~req'[t].called
                      /\ BreakerOf(t)' = BreakerOf(t)
                 ELSE /\ req'[t].cb = "permitted" /\ req'[t].pc = "proxy"
                      /\ BreakerOf(t)'.state = "half-open"
                      /\ BreakerOf(t)'.counts.Requests = 1
           /\ (Attempts(t) /\ BreakerOf(t).state = "half-open"
                  /\ BreakerOf(t).counts.Requests = 0) =>
                 /\ req'[t].cb = "permitted"
                 /\ BreakerOf(t)'.state = "half-open"
           /\ (req[t].pc = "cbstate" /\ req'[t].pc # "cbstate") =>
                 /\ req'[t].pc = "done" /\ ~req'[t].called
                 /\ req'[t].status = StatusServiceUnavailable
                 /\ req'[t].outcome = "none"
      /\ \A s \in BreakerNames :
           (breakers[s].state # "open" /\ breakers'[s].state = "open") =>
             breakers'[s].expiry = <<now + 30 * Second>> ]_vars

\* One request was rejected by the open breaker and waits for its 503 while,
\* the cool-down over, another has been permitted as the first probe.
C5_Witness ==
  \E t, u \in Tasks :
    /\ req[t].pc = "cbstate" /\ req[t].cb = "rejected"
    /\ req[u].pc = "proxy" /\ req[u].cb = "permitted"
    /\ BreakerOf(u).state = "half-open"
    /\ BreakerOf(u).generation = req[u].generation
    /\ BreakerOf(u).counts.Requests = 1

\* C6 as stated: in HalfOpen every reported failure opens the breaker with a
\* fresh 30 s cool-down, the 5th of 5 consecutive reported successes closes
\* it with the failure count at 0, and nothing else leaves HalfOpen.
C6_AsStated ==
  [][ /\ \A t \in Tasks :
           (Reports(t) /\ BreakerOf(t).state = "half-open") =>
             /\ req'[t].reported = "failure"
                  => /\ BreakerOf(t)'.state = "open"
                     /\ BreakerOf(t)'.expiry = <<now + 30 * Second>>
             /\ (req'[t].reported = "success"
                    /\ BreakerOf(t).counts.ConsecutiveSuccesses = 4)
                  => /\ BreakerOf(t)'.state = "closed"
                     /\ BreakerOf(t)'.counts.ConsecutiveFailures = 0
      /\ \A s \in BreakerNames :
           (breakers[s].state = "half-open" /\ breakers'[s].state # "half-open") =>
             \E t \in Tasks : Reports(t) /\ RouteTable[req[t].route].service = s ]_vars

\* C6, amended: the same for the reports of the probes, the attempts admitted
\* in the current HalfOpen generation.  One failure of a probe opens the
\* breaker with a fresh 30 s cool-down; the 5th success in a row of probes
\* closes it with all counts at 0, an earlier one leaves it HalfOpen; the
\* report of an attempt admitted before the breaker became HalfOpen changes
\* nothing; and only these two reports of probes leave HalfOpen.
C6_Probes ==
  [][ /\ \A t \in Tasks :
           (Reports(t) /\ BreakerOf(t).state = "half-open") =>
             IF req[t].generation # BreakerOf(t).generation
             THEN BreakerOf(t)' = BreakerOf(t)
             ELSE /\ req'[t].reported = "failure"
                       => /\ BreakerOf(t)'.state = "open"
                          /\ BreakerOf(t)'.expiry = <<now + 30 * Second>>
                          /\ BreakerOf(t)'.counts = ClearCounts
                  /\ (req'[t].reported = "success"
                         /\ BreakerOf(t).counts.ConsecutiveSuccesses = 4)
                       => /\ BreakerOf(t)'.state = "closed"
                          /\ BreakerOf(t)'.counts = ClearCounts
                  /\ (req'[t].reported = "success"
                         /\ BreakerOf(t).counts.ConsecutiveSuccesses < 4)
                       => /\ BreakerOf(t)'.state = "half-open"
                          /\ BreakerOf(t)'.counts.ConsecutiveSuccesses
                               = BreakerOf(t).counts.ConsecutiveSuccesses + 1
      /\ \A s \in BreakerNames :
           (breakers[s].state = "half-open" /\ breakers'[s].state # "half-open") =>
             \E t \in Tasks :
               /\ Reports(t) /\ RouteTable[req[t].route].service = s
               /\ req[t].generation = breakers[s].generation
               /\ \/ req'[t].reported = "failure" /\ breakers'[s].state = "open"
                  \/ /\ req'[t].reported = "success"
                     /\ breakers[s].counts.ConsecutiveSuccesses = 4
                     /\ breakers'[s].state = "closed" ]_vars

\* The fifth success in a row of the probes has just closed the breaker.
C6_Witness ==
  \E t \in Tasks :
    /\ Done(t) /\ req[t].reported = "success" /\ ~req[t].stale
    /\ BreakerOf(t).state = "closed"
    /\ BreakerOf(t).generation = req[t].generation + 1
    /\ BreakerOf(t).generation >= 4

\* C7: a request's outbound call has started only if every stage of its
\* route let it pass: ValidateToken accepted it (protected route), the rate
\* limiter allowed it (by count, or failing open) and the service's breaker
\* permitted the attempt.  A request denied or rejected at a stage has no
\* outbound call and no backend outcome.
C7_CallOnlyIfPermitted ==
  \A t \in Tasks :
    LET r == req[t]
        rt == RouteTable[r.route]
    IN  /\ (r.called \/ r.pc = "proxy" \/ r.outcome # "none") =>
              /\ r.called
              /\ rt.protected => r.authPassed /\ r.user_id # <<>>
              /\ redisClient => r.rl \in {"allow", "error"}
              /\ rt.service \in BreakerNames => r.cb = "permitted"
        /\ (r.rl = "deny" \/ r.cb = "rejected"
               \/ (Done(t) /\ rt.protected /\ ~r.authPassed)) =>
              /\ ~r.called /\ r.outcome = "none" /\ r.pc # "proxy"
        /\ (Done(t) /\ rt.protected /\ ~r.authPassed) =>
              /\ r.status = StatusUnauthorized /\ r.rl = "none" /\ r.cb = "none"
        /\ r.rl = "deny" => r.cb = "none"

\* One request is at its backend, let through by all three stages, while
\* another, denied by the rate limiter, never got to the breaker.
C7_Witness ==
  \E t, u \in Tasks :
    /\ req[t].pc = "proxy" /\ req[t].called /\ req[t].authPassed
    /\ req[t].rl = "allow" /\ req[t].cb = "permitted"
    /\ req[u].pc = "ttl" /\ req[u].rl = "deny" /\ ~req[u].called

\* C8 as stated: a request the breaker rejected (open, or half-open with the
\* probe limit reached) and a request whose outbound call failed at transport
\* level are answered 503 with a body of exactly a generic error message and
\* the service name.
C8_AsStated ==
  \A t \in Tasks :
    (Done(t) /\ (req[t].cb = "rejected" \/ req[t].outcome = "transport_error")) =>
      /\ req[t].status = StatusServiceUnavailable
      /\ DOMAIN req[t].body = {"error", "service"}
      /\ req[t].body.service = RouteTable[req[t].route].service

\* C9 as stated: the attempt of a permitted request is reported as a failure
\* exactly when its outbound call failed at transport level; an attempt whose
\* backend answered, with whatever status, is reported as success and does
\* not open the breaker.
C9_AsStated ==
  [][ \A t \in Tasks :
        Reports(t) =>
          /\ req'[t].reported = "failure" <=> req'[t].outcome = "transport_error"
          /\ req'[t].backendStatus # 0 =>
                /\ req'[t].reported = "success"
                /\ BreakerOf(t).state # "open" =>
                      breakers'[RouteTable[req[t].route].service].state # "open" ]_vars

\* C10: a request for a service name without configuration is answered by
\* Handle at once with 503 "Service not configured", with no admission asked
\* of a breaker, no breaker changed and no outbound call.
C10_NotConfigured ==
  [][ \A t \in Tasks :
        (req[t].pc = "handle" /\ req'[t].pc # "handle"
           /\ RouteTable[req[t].route].service \notin DOMAIN Services) =>
          /\ req'[t].pc = "done"
          /\ req'[t].status = StatusServiceUnavailable
          /\ req'[t].body = [ error |-> "Service not configured" ]
          /\ req'[t].cb = "none" /\ ~req'[t].called /\ req'[t].outcome = "none"
          /\ breakers' = breakers ]_vars

\* A request for the unconfigured service has its 503 while the breaker of
\* another service is open.
C10_Witness ==
  \E t \in Tasks :
    /\ Done(t) /\ RouteTable[req[t].route].service \notin DOMAIN Services
    /\ req[t].authPassed /\ req[t].status = StatusServiceUnavailable
    /\ \E s \in BreakerNames : breakers[s].state = "open"

\* C11 as stated: rewriting the already-rewritten path gives the same path,
\* rewrite(rewrite(p)) = rewrite(p), for every path p the Director rewrites:
\* the path it sends is a fixed point of the rewrite.
C11_AsStated ==
  fwd.stage = "sent" => RewritePath(fwd.Path) = fwd.Path

\* C12 as stated: the path sent to the backend is the incoming path without
\* the prefix "/api" (a "/" put in front when that is empty or not absolute)
\* and begins with exactly one "/".
C12_AsStated ==
  fwd.stage = "sent" =>
    LET rest == SubSeq(fwd.incoming, Len(ApiPrefix) + 1, Len(fwd.incoming))
    IN  /\ HasPrefix(fwd.incoming, ApiPrefix)
        /\ fwd.Path = IF rest = <<>> \/ rest[1] # "/" THEN <<"/">> \o rest ELSE rest
        /\ HasPrefix(fwd.Path, <<"/">>)
        /\ ~HasPrefix(fwd.Path, <<"/", "/">>)

\* C13 as stated: the first request on a key after its window has elapsed is
\* allowed with remaining = Q - 1, however many requests were made in the
\* window before.  Here the window before saw more than Q requests: one of
\* them, denied, is still on its way out when the new window's first request
\* is decided.
C13_AsStated ==
  \A t, u \in Tasks :
    ( /\ t # u /\ req[t].key = req[u].key
      /\ req[u].rl = "deny" /\ req[u].nth > QuotaOf(req[u])
      /\ req[t].nth = 1 )
    => /\ req[t].rl = "allow"
       /\ req[t].remainingHdr = QuotaOf(req[t]) - 1

\* The step in which the denial of request t is written
Denies(t) == req[t].pc = "ttl" /\ req'[t].pc = "done"

\* C14 as stated: a denial's retry-after is the counter's remaining
\* time-to-live, in whole seconds, when the lookup succeeds and the counter
\* exists, and the window length W otherwise; it is positive and at most W.
C14_AsStated ==
  [][ \A t \in Tasks :
        Denies(t) =>
          LET k == req[t].key
              reported == /\ ~req'[t].ttlErr
                          /\ Live(redis, k, now) /\ redis[k].expireAt # <<>>
              retry == req'[t].retryAfterHdr * Second
          IN  /\ req'[t].status = StatusTooManyRequests
              /\ req'[t].body.retry_after = req'[t].retryAfterHdr
              /\ req'[t].retryAfterHdr >= 1
              /\ retry <= WindowOf(req[t])
              /\ IF reported
                 THEN LET remaining == redis[k].expireAt[1] - now
                      IN  retry - remaining < Second /\ remaining - retry < Second
                 ELSE retry = WindowOf(req[t]) ]_vars

\* C15 as stated: every request that has reached the outbound call
\* eventually has its response, a backend's or a synthesized one.
C15_AsStated ==
  \A t \in Tasks : (req[t].pc = "proxy") ~> (req[t].pc = "done")

\* The scope a request is counted under: the network address on an IP-limited
\* route and whenever the context carries no user id, else the identity.
ScopeOf(r) ==
  IF LimiterScope(RouteTable[r.route].limiter) = "ip" \/ r.user_id = <<>>
  THEN "ip" ELSE "identity"

\* The caller value within that scope
ScopeValueOf(r) == IF ScopeOf(r) = "ip" THEN r.ip ELSE r.user_id

\* C16 as stated: two requests are counted under the same store key if and
\* only if they have the same scope (network address or identity), the same
\* caller value and the same route; a caller counted by identity never shares
\* a counter with a caller counted by network address.
C16_AsStated ==
  \A t, u \in Tasks :
    req[t].key # <<>> /\ req[u].key # <<>> =>
      ( req[t].key = req[u].key
          <=> /\ ScopeOf(req[t]) = ScopeOf(req[u])
              /\ ScopeValueOf(req[t]) = ScopeValueOf(req[u])
              /\ req[t].route = req[u].route )

\* The request of task t was answered "Token has been revoked"
RejectedAsRevoked(t) ==
  /\ Done(t) /\ req[t].status = StatusUnauthorized
  /\ req[t].body = [ error |-> "Token has been revoked" ]

\* The step in which ValidateToken decides on request t
Validates(t) == req[t].pc = "auth" /\ req'[t].pc # "auth"

\* C17: a request with a well-formed bearer token is rejected as revoked
\* (401, no rate limiting, no breaker, no outbound call) if and only if the
\* blacklist lookup succeeded and reported the token present, which it does
\* exactly when the store holds the token's blacklist entry, unexpired, at
\* the time of the lookup.  After a failed lookup the request goes on to
\* token verification and ends as a token that is not blacklisted would:
\* accepted if the token verifies, else answered "Invalid token".
C17_BlacklistFailsOpen ==
  [][ \A t \in Tasks :
        /\ RejectedAsRevoked(t)' =>
              /\ ~req'[t].authPassed /\ req'[t].rl = "none"
              /\ req'[t].cb = "none" /\ ~req'[t].called
        /\ (Validates(t) /\ req[t].authz \in DOMAIN Tokens) =>
              LET r == req'[t]
                  listed == Live(redis, BlacklistKey(req[t].authz), now)
              IN  /\ r.blacklist \in {"absent", "present", "error"}
                  /\ r.blacklist = "present" => listed
                  /\ r.blacklist = "absent" => ~listed
                  /\ RejectedAsRevoked(t)' <=> r.blacklist = "present"
                  /\ r.blacklist \in {"absent", "error"} =>
                        /\ r.authPassed <=> Tokens[r.authz].valid
                        /\ ~r.authPassed =>
                              /\ r.pc = "done" /\ r.status = StatusUnauthorized
                              /\ r.body = [ error |-> "Invalid token" ] ]_vars

\* A token was blacklisted for a time while the gateway was running.  One
\* request with it was rejected as revoked, while another with the same token,
\* whose lookup failed, passed verification and is at the rate limiter.
C17_Witness ==
  \E t, u \in Tasks :
    /\ RejectedAsRevoked(t) /\ req[u].authz = req[t].authz
    /\ Live(redis, BlacklistKey(req[t].authz), now)
    /\ redis[BlacklistKey(req[t].authz)].expireAt # <<>>
    /\ req[u].blacklist = "error"
    /\ req[u].authPassed /\ req[u].pc = "ratelimit"

\* C18: a Closed breaker counts consecutive failures within one interval of
\* 10 s only.  The first step that involves the breaker after the end of its
\* interval starts a new interval of 10 s from that moment with the count at
\* zero, the breaker still Closed; a step adds a failure to the count, or
\* opens the breaker, only within the interval the counted failures are in,
\* and it opens the breaker only as the fifth of them.
C18_IntervalReset ==
  [][ \A s \in BreakerNames :
        LET b == breakers[s]
            b2 == breakers'[s]
        IN  b.state = "closed" =>
              /\ b.expiry # <<>> /\ b.expiry[1] <= now + 10 * Second
              /\ (b2 # b /\ now > b.expiry[1]) =>
                    /\ b2.state = "closed"
                    /\ b2.generation = b.generation + 1
                    /\ b2.counts.ConsecutiveFailures = 0
                    /\ b2.expiry = <<now + 10 * Second>>
              /\ (b2.state = "closed"
                     /\ b2.counts.ConsecutiveFailures > b.counts.ConsecutiveFailures) =>
                    /\ now <= b.expiry[1]
                    /\ b2.generation = b.generation /\ b2.expiry = b.expiry
                    /\ b2.counts.ConsecutiveFailures = b.counts.ConsecutiveFailures + 1
              /\ b2.state # "closed" =>
                    /\ now <= b.expiry[1]
                    /\ b.counts.ConsecutiveFailures = 4 ]_vars

\* A breaker in its second interval, still Closed, has counted four failures
\* when an attempt admitted in the first interval reports a failure: the
\* fifth failure in a row, which is not added.
C18_Witness ==
  \E t \in Tasks :
    /\ Done(t) /\ req[t].reported = "failure" /\ req[t].stale
    /\ req[t].generation = 1
    /\ BreakerOf(t).state = "closed" /\ BreakerOf(t).generation = 2
    /\ BreakerOf(t).counts.ConsecutiveFailures = 4

\* The step in which request t is admitted by its service's breaker
Permitted(t) == Attempts(t) /\ req'[t].cb = "permitted"

\* C19: in one HalfOpen episode at most 5 attempts are admitted.  The
\* breaker's request count is 0 when the episode begins, or 1 if it begins
\* with an admission; within the episode an admission adds exactly one to it,
\* a probe's reported success adds exactly one to the successes, and no other
\* step changes a count.  An attempt that finds the count at 5 is rejected:
\* no count moves, no outbound call is made and the answer is 503.
C19_HalfOpenProbes ==
  [][ /\ \A s \in BreakerNames :
           LET b == breakers[s]
               b2 == breakers'[s]
               admits == { t \in Tasks : Permitted(t) /\ RouteTable[req[t].route].service = s }
               successes == { t \in Tasks :
                                /\ Reports(t) /\ RouteTable[req[t].route].service = s
                                /\ req'[t].reported = "success"
                                /\ req[t].generation = b.generation }
           IN  b2.state = "half-open" =>
                 /\ b2.counts.Requests <= 5
                 /\ b.state # "half-open" =>
                       /\ b2.counts.Requests = Cardinality(admits)
                       /\ b2.counts.ConsecutiveSuccesses = 0
                 /\ b.state = "half-open" =>
                       /\ b2.generation = b.generation
                       /\ b2.counts.Requests = b.counts.Requests + Cardinality(admits)
                       /\ b2.counts.ConsecutiveSuccesses
                            = b.counts.ConsecutiveSuccesses + Cardinality(successes)
      /\ \A t \in Tasks :
           /\ (Attempts(t) /\ BreakerOf(t).state = "half-open") =>
                 IF BreakerOf(t).counts.Requests < 5
                 THEN req'[t].cb = "permitted" /\ req'[t].pc = "proxy"
                 ELSE /\ req'[t].cb = "rejected" /\ ~req'[t].called
                      /\ req'[t].pc = "cbstate"
                      /\ BreakerOf(t)' = BreakerOf(t)
           /\ req[t].pc = "cbstate" =>
                 /\ req'[t].pc \in {"cbstate", "done"}
                 /\ req'[t].pc = "done" =>
                       /\ req'[t].status = StatusServiceUnavailable
                       /\ ~req'[t].called /\ req'[t].outcome = "none" ]_vars

\* The fifth probe of a HalfOpen episode is at the backend and a sixth
\* attempt has been answered 503 without a call.
C19_Witness ==
  \E t, u \in Tasks :
    /\ req[t].pc = "proxy" /\ req[t].cb = "permitted"
    /\ BreakerOf(t).state = "half-open" /\ BreakerOf(t).counts.Requests = 5
    /\ req[t].generation = BreakerOf(t).generation
    /\ req[u].route = req[t].route
    /\ Done(u) /\ req[u].cb = "rejected" /\ req[u].status = StatusServiceUnavailable

\* C20: an admitted attempt reports its outcome exactly once, in the step in
\* which its outbound call ends, be it with a response of any status or with
\* a transport error: the breaker, taken after its time-driven transitions,
\* moves by exactly one success or one failure of the attempt's generation
\* (by nothing if that generation is over), a finished admitted attempt has
\* reported, and no later step of the request touches the breaker.  A request
\* that was rejected, or never reached a breaker, reports nothing: it has no
\* outcome recorded and its steps move no count.
C20_ReportsOnce ==
  [][ \A t \in Tasks :
        /\ Reports(t) =>
              LET c == currentState(BreakerOf(t), now)
                  b2 == BreakerOf(t)'
              IN  /\ req'[t].reported \in {"success", "failure"}
                  /\ req'[t].outcome \in {"response", "transport_error", "aborted"}
                  /\ req'[t].reported = "success" <=> req'[t].outcome = "response"
                  /\ IF c.generation # req[t].generation THEN b2 = c
                     ELSE IF b2.generation # c.generation
                     THEN b2.generation = c.generation + 1 /\ b2.counts = ClearCounts
                     ELSE /\ b2.counts.Requests = c.counts.Requests
                          /\ req'[t].reported = "success" =>
                                /\ b2.counts.ConsecutiveSuccesses = c.counts.ConsecutiveSuccesses + 1
                                /\ b2.counts.ConsecutiveFailures = 0
                          /\ req'[t].reported = "failure" =>
                                /\ b2.counts.ConsecutiveFailures = c.counts.ConsecutiveFailures + 1
                                /\ b2.counts.ConsecutiveSuccesses = 0
        /\ (req'[t].pc = "done" /\ req'[t].cb = "permitted") =>
              req'[t].reported \in {"success", "failure"}
        /\ (req[t].reported # "none" /\ req'[t] # req[t]) =>
              breakers' = breakers /\ req'[t].reported = "none"
        /\ req'[t].cb # "permitted" => req'[t].reported = "none"
        /\ (req[t].cb = "rejected" /\ req'[t] # req[t]) =>
              breakers'[RouteTable[req[t].route].service]
                = currentState(BreakerOf(t), now) ]_vars

\* An admitted attempt was aborted while the backend's answer was being
\* relayed and has reported the one failure that opened the breaker, while a
\* rejected attempt on the same breaker, about to be answered, has reported
\* nothing.
C20_Witness ==
  \E t, u \in Tasks :
    /\ Done(t) /\ req[t].cb = "permitted" /\ req[t].outcome = "aborted"
    /\ req[t].reported = "failure" /\ ~req[t].stale
    /\ BreakerOf(t).state = "open"
    /\ req[u].route = req[t].route
    /\ req[u].pc = "cbstate" /\ req[u].cb = "rejected" /\ req[u].reported = "none"

\* The request r was turned away by ValidateToken
AuthRejected(r) ==
  /\ RouteTable[r.route].protected /\ r.pc = "done" /\ ~r.authPassed

\* The request r was counted above its route's quota by the rate limiter
OverQuota(r) == r.pc # "idle" /\ r.count > QuotaOf(r)

\* C21: a request stopped at a stage leaves the state of every later stage
\* as it was.  No step of a request that ValidateToken turns away (the step
\* that answers it included) changes a counter of the store or a breaker;
\* no step of a request in ValidateToken does; and no step of a request in
\* the rate limiter, or counted above its quota and denied there, changes a
\* breaker's state, generation or counts.
C21_LaterStagesUntouched ==
  [][ \A t \in Tasks :
        req'[t] # req[t] =>
          /\ (req[t].pc = "auth" \/ AuthRejected(req[t]) \/ AuthRejected(req'[t])) =>
                redis' = redis /\ breakers' = breakers
          /\ AuthRejected(req'[t]) =>
                /\ req'[t].status = StatusUnauthorized
                /\ req'[t].key = <<>> /\ req'[t].rl = "none"
                /\ req'[t].cb = "none" /\ ~req'[t].called
          /\ (req[t].pc \in {"ratelimit", "ttl"} \/ OverQuota(req[t])) =>
                breakers' = breakers
          /\ OverQuota(req'[t]) =>
                /\ req'[t].rl = "deny" /\ req'[t].pc \in {"ttl", "done"}
                /\ req'[t].cb = "none" /\ ~req'[t].called
                /\ req'[t].pc = "done" => req'[t].status = StatusTooManyRequests ]_vars

\* One request has been turned away by ValidateToken while another, counted
\* above the quota, is being denied, and the breaker has attempts on record.
C21_Witness ==
  \E t, u \in Tasks :
    /\ AuthRejected(req[t]) /\ req[t].status = StatusUnauthorized
    /\ OverQuota(req[u]) /\ req[u].pc = "ttl"
    /\ redis[req[u].key].count = req[u].count
    /\ breakers["transaction-service"].counts.Requests > 0

\* The service the request of task t is for
ServiceOf(t) == RouteTable[req[t].route].service

\* C22: a breaker changes (state, generation, counts or expiry) only in a
\* step of a request for its own service; and an attempt is rejected only by
\* its own service's breaker, found Open or HalfOpen with its 5 probes
\* admitted, whatever the state of the other breakers.
C22_PerService ==
  [][ /\ \A s \in BreakerNames :
           breakers'[s] # breakers[s] =>
             \E t \in Tasks : req'[t] # req[t] /\ ServiceOf(t) = s
      /\ \A t \in Tasks :
           Attempts(t) =>
             LET b2 == breakers'[ServiceOf(t)]
             IN  /\ req'[t].cb = "rejected" =>
                       \/ b2.state = "open"
                       \/ b2.state = "half-open" /\ b2.counts.Requests = 5
                 /\ b2.state = "closed" => req'[t].cb = "permitted" ]_vars

\* The breaker of transaction-service is Open and has just rejected an
\* attempt, while an attempt for user-service is at its backend, admitted by
\* a Closed breaker.
C22_Witness ==
  \E t, u \in Tasks :
    /\ ServiceOf(t) = "transaction-service" /\ req[t].pc = "cbstate"
    /\ req[t].cb = "rejected" /\ breakers["transaction-service"].state = "open"
    /\ ServiceOf(u) = "user-service" /\ req[u].pc = "proxy"
    /\ req[u].cb = "permitted" /\ breakers["user-service"].state = "closed"

\* C23 as stated: on a token-protected route the X-User-ID of the outbound
\* request is the subject of the verified token (no header when the token
\* has none), so two forwarded requests with the same token carry the same
\* X-User-ID whatever X-User-ID their callers sent.
C23_AsStated ==
  \A t, u \in Tasks :
    LET r == req[t]
        q == req[u]
    IN  /\ (r.called /\ RouteTable[r.route].protected) =>
              r.xUserIDOut = Tokens[r.authz].sub
        /\ (r.called /\ q.called /\ RouteTable[r.route].protected
               /\ r.route = q.route /\ r.authz = q.authz) =>
              r.xUserIDOut = q.xUserIDOut

\* C24: once every outbound call to transaction-service is answered, with
\* the clock going on and requests arriving and completing, a breaker that is
\* Open or HalfOpen is Closed again at some later time.
C24_NoLockOut ==
  (breakers["transaction-service"].state \in {"open", "half-open"})
    ~> (breakers["transaction-service"].state = "closed")

\* The breaker is Closed again after an Open and a HalfOpen episode: the
\* fifth probe's success has just closed it.
C24_Witness ==
  \E t \in Tasks :
    /\ Done(t) /\ req[t].reported = "success" /\ ~req[t].stale
    /\ breakers["transaction-service"].state = "closed"
    /\ breakers["transaction-service"].generation = req[t].generation + 1
    /\ breakers["transaction-service"].counts = ClearCounts
    /\ now > 30 * Second

====
